---- MODULE Spec2Model ----
(***************************************************************************)
(* Social Post Tracker (src/app.py): the analytics engine.                 *)
(*                                                                         *)
(* Text is a sequence of one-character strings.  A date is a day number,   *)
(* day 0 being a Monday, so that date.weekday() is d % 7; the time of day  *)
(* of a post decides nothing and is left out.  A float is the exact        *)
(* fraction [num, den] in lowest terms.                                    *)
(***************************************************************************)
EXTENDS Integers, Sequences, FiniteSets, TLC

VARIABLES
    caption,      \* data_entry: the text of the "caption_text_live" text area
    counts,       \* suggest_keywords: the value_counts Series s, as <<term, n>> rows
    suggestions,  \* suggest_keywords: the returned list
    df,           \* the DataFrame handed to _explode_keywords
    exploded,     \* the rows _explode_keywords returns
    posts,        \* the rows of table posts, as a bag: row -> multiplicity
    out,          \* what the last page run showed
    session       \* st.session_state: key -> value

vars == <<caption, counts, suggestions, df, exploded, posts, out, session>>

(***************************************************************************)
(* Bounds of the model.                                                    *)
(***************************************************************************)
MaxCaptionLen == 6
MaxKwLen == 3
MaxRows == 2
MaxPosts == 2
MaxDay == 14

(***************************************************************************)
(* Generic helpers.                                                        *)
(***************************************************************************)
RECURSIVE SumSeq(_)
SumSeq(s) == IF s = <<>> THEN 0 ELSE Head(s) + SumSeq(Tail(s))

RECURSIVE Concat(_)
Concat(ss) == IF ss = <<>> THEN <<>> ELSE Head(ss) \o Concat(Tail(ss))

Range(s) == {s[i] : i \in DOMAIN s}

Perms(n) == {p \in [1..n -> 1..n] : \A i, j \in 1..n : p[i] = p[j] => i = j}

Min(a, b) == IF a <= b THEN a ELSE b

\* DataFrame.head(n) / Series.head(n)
HeadN(s, n) == SubSeq(s, 1, Min(n, Len(s)))

\* the number of i with s[i] = x
Occurrences(s, x) == Cardinality({i \in DOMAIN s : s[i] = x})

\* the distinct elements of s in order of first occurrence
FirstOccurrences(s) ==
    LET firsts == {i \in DOMAIN s : \A j \in 1..(i - 1) : s[j] # s[i]}
        RECURSIVE Build(_)
        Build(i) == IF i > Len(s) THEN <<>>
                    ELSE (IF i \in firsts THEN <<s[i]>> ELSE <<>>) \o Build(i + 1)
    IN  Build(1)

(***************************************************************************)
(* Characters.                                                             *)
(***************************************************************************)
LowerLetters == {"a", "b", "c", "d", "o", "t"}
UpperLetters == {"A", "B", "O", "T"}
Digits == {"1"}

\* str.lower() on one character
LowerChar(c) == CASE c = "A" -> "a" [] c = "B" -> "b" [] c = "O" -> "o"
                  [] c = "T" -> "t" [] OTHER -> c

\* str.lower()
Lower(s) == [i \in DOMAIN s |-> LowerChar(s[i])]

Alpha == LowerLetters \cup UpperLetters       \* [A-Za-z]
WordTail == Alpha \cup {"'"}                  \* [A-Za-z']
WordChars == Alpha \cup Digits \cup {"_"}     \* \w
Whitespace == {" "}

\* the length of the longest run of characters of class cls in text from i
RECURSIVE RunLen(_, _, _)
RunLen(text, i, cls) ==
    IF i > Len(text) \/ text[i] \notin cls THEN 0 ELSE 1 + RunLen(text, i + 1, cls)

(***************************************************************************)
(* suggest_keywords                                                        *)
(***************************************************************************)
\* the members of STOPWORDS that can be written with the model's letters
STOPWORDS == {<<"a">>, <<"a", "t">>, <<"t", "o">>, <<"t", "o", "o">>}

MinWordTail == 2
MinHashLen == 2
DefaultTopN == 15

\* the spans <<first, last>> of the matches of WORD_RE in text from i: leftmost,
\* greedy, non-overlapping
RECURSIVE WordSpans(_, _)
WordSpans(text, i) ==
    IF i > Len(text) THEN <<>>
    ELSE LET n == RunLen(text, i + 1, WordTail)
         IN  IF text[i] \in Alpha /\ n >= MinWordTail
             THEN <<(<<i, i + n>>)>> \o WordSpans(text, i + n + 1)
             ELSE WordSpans(text, i + 1)

\* the spans of the matches of HASH_RE in text from i, the "#" included
RECURSIVE HashSpans(_, _)
HashSpans(text, i) ==
    IF i > Len(text) THEN <<>>
    ELSE LET n == RunLen(text, i + 1, WordChars)
         IN  IF text[i] = "#" /\ n >= MinHashLen
             THEN <<(<<i, i + n>>)>> \o HashSpans(text, i + n + 1)
             ELSE HashSpans(text, i + 1)

\* WORD_RE.findall(text)
WordFindall(text) ==
    LET sp == WordSpans(text, 1) IN [k \in DOMAIN sp |-> SubSeq(text, sp[k][1], sp[k][2])]

\* HASH_RE.findall(text): the captured group of each match
HashFindall(text) ==
    LET sp == HashSpans(text, 1) IN [k \in DOMAIN sp |-> SubSeq(text, sp[k][1] + 1, sp[k][2])]

LowerAll(ws) == [i \in DOMAIN ws |-> Lower(ws[i])]

NotStopword(w) == w \notin STOPWORDS

\* line 105: words are lowercased and filtered against STOPWORDS
KeptWords(text) == SelectSeq(LowerAll(WordFindall(text)), NotStopword)

\* line 106: hashtags are lowercased
KeptHashtags(text) == LowerAll(HashFindall(text))

\* line 107
Terms(text) == KeptWords(text) \o KeptHashtags(text)

\* pd.Series(terms).value_counts() before sorting: one row per distinct term, in
\* order of first occurrence
CountRows(terms) ==
    LET d == FirstOccurrences(terms)
    IN  [i \in DOMAIN d |-> <<d[i], Occurrences(terms, d[i])>>]

\* the orders value_counts may return: descending count; the sort is not a stable
\* one, so rows of equal count come in any order
ValueCounts(terms) ==
    LET rows == CountRows(terms)
        n == Len(rows)
    IN  {[i \in 1..n |-> rows[p[i]]] : p \in
            {q \in Perms(n) : \A i, j \in 1..n : i < j => rows[q[i]][2] >= rows[q[j]][2]}}

Index(s) == [i \in DOMAIN s |-> s[i][1]]

\* the state after suggest_keywords(text, top_n) returned with value_counts giving s
SuggestResult(text, top_n, s) ==
    IF text = <<>> \/ Terms(text) = <<>>
    THEN [counts |-> <<>>, suggestions |-> <<>>]
    ELSE [counts |-> s, suggestions |-> Index(HeadN(s, top_n))]

CaptionChars == {"t", "o", "T", "#", " ", "'"}

KeywordsIdle ==
    /\ df = <<>> /\ exploded = <<>> /\ posts = <<>> /\ out = <<>> /\ session = <<>>

InitKeywords ==
    /\ caption = <<>>
    /\ counts = <<>>
    /\ suggestions = <<>>
    /\ KeywordsIdle

\* data_entry, lines 327-328: the caption changes and the page runs again
TypeCaption(c) ==
    /\ Len(caption) < MaxCaptionLen
    /\ caption' = Append(caption, c)
    /\ \E s \in ValueCounts(Terms(caption')) :
          LET r == SuggestResult(caption', DefaultTopN, s)
          IN  /\ counts' = r.counts
              /\ suggestions' = r.suggestions
    /\ UNCHANGED <<df, exploded, posts, out, session>>

\* data_entry, lines 312-314: reset_kw clears the caption after a save
ResetCaption ==
    /\ caption # <<>>
    /\ caption' = <<>>
    /\ counts' = <<>>
    /\ suggestions' = <<>>
    /\ UNCHANGED <<df, exploded, posts, out, session>>

NextKeywords == (\E c \in CaptionChars : TypeCaption(c)) \/ ResetCaption

SpecKeywords == InitKeywords /\ [][NextKeywords]_vars

(***************************************************************************)
(* Claims about suggest_keywords.                                          *)
(***************************************************************************)
\* C4: no suggested keyword is a stop word, whether it came from a word or from
\* a hashtag.
C4_NoStopwordSuggested ==
    \A i \in DOMAIN suggestions : suggestions[i] \notin STOPWORDS

\* the words of text that are no part of a hashtag, lowercased, stop words removed
PlainWords(text) ==
    LET ws == WordSpans(text, 1)
        hs == HashSpans(text, 1)
        Apart(w) == \A k \in DOMAIN hs : w[2] < hs[k][1] \/ hs[k][2] < w[1]
        plain == SelectSeq(ws, Apart)
    IN  SelectSeq([k \in DOMAIN plain |-> Lower(SubSeq(text, plain[k][1], plain[k][2]))],
                  NotStopword)

\* C5: every token is suggested at most once, and the frequency counted for a
\* hashtag's token is the number of hashtags that fold to it plus the number of
\* plain words equal to it: a hashtag's body is not counted again as a word.
C5_HashtagCountedOnce ==
    /\ \A i, j \in DOMAIN suggestions : suggestions[i] = suggestions[j] => i = j
    /\ \A i \in DOMAIN counts :
          counts[i][1] \in Range(KeptHashtags(caption)) =>
              counts[i][2] = Occurrences(KeptHashtags(caption), counts[i][1])
                             + Occurrences(PlainWords(caption), counts[i][1])

(***************************************************************************)
(* _explode_keywords                                                       *)
(***************************************************************************)
\* SQL NULL / pandas NaN in a text column
NoneText == <<"None">>

METRICS == <<"reach", "likes", "follows_gained", "email_captures">>

\* Series.fillna("")
FillNaText(t) == IF t = NoneText THEN <<>> ELSE t

\* str.replace(old, new) for one-character old and new
ReplaceChar(t, old, new) == [i \in DOMAIN t |-> IF t[i] = old THEN new ELSE t[i]]

\* str.split(sep) for a one-character sep: one more piece than there are seps
RECURSIVE Split(_, _)
Split(t, sep) ==
    LET n == RunLen(t, 1, Range(t) \ {sep})
    IN  IF n = Len(t) THEN <<t>>
        ELSE <<SubSeq(t, 1, n)>> \o Split(SubSeq(t, n + 2, Len(t)), sep)

\* str.strip()
RECURSIVE Strip(_)
Strip(t) ==
    IF t = <<>> THEN t
    ELSE IF Head(t) \in Whitespace THEN Strip(Tail(t))
    ELSE IF t[Len(t)] \in Whitespace THEN Strip(SubSeq(t, 1, Len(t) - 1))
    ELSE t

\* line 171: k and k.strip()
Truthy(k) == k # <<>> /\ Strip(k) # <<>>

StripLower(k) == Lower(Strip(k))

\* KeywordList without the replacement of ";" by ","
KeywordListCommaOnly(t) ==
    LET lst == SelectSeq(Split(t, ","), Truthy)
    IN  [i \in DOMAIN lst |-> StripLower(lst[i])]

\* lines 170-171: the list of keywords of one keywords value
KeywordList(t) ==
    LET lst == SelectSeq(Split(ReplaceChar(t, ";", ","), ","), Truthy)
    IN  [i \in DOMAIN lst |-> StripLower(lst[i])]

KeywordRow(row, k) ==
    [keyword |-> k, reach |-> row.reach, likes |-> row.likes,
     follows_gained |-> row.follows_gained, email_captures |-> row.email_captures]

\* line 173, DataFrame.explode on one row: a row per element, and one row with a
\* missing keyword for an empty list
ExplodeRow(row) ==
    LET lst == KeywordList(FillNaText(row.keywords))
    IN  IF lst = <<>> THEN <<KeywordRow(row, NoneText)>>
        ELSE [i \in DOMAIN lst |-> KeywordRow(row, lst[i])]

\* line 174
HasKeyword(r) == r.keyword # NoneText /\ r.keyword # <<>>

\* _explode_keywords(df); the empty frame of lines 175-176 is <<>> as well
ExplodeKeywords(frame) ==
    SelectSeq(Concat([i \in DOMAIN frame |-> ExplodeRow(frame[i])]), HasKeyword)

KwChars == {"a", "A", ",", ";", " "}

Texts(chars, n) == UNION {[1..k -> chars] : k \in 0..n}

\* the metrics of the rows the model draws: <<reach, likes, follows, captures>>
MetricTuples == {<<0, 1, 0, 0>>, <<1, 0, 1, 0>>, <<3, 2, 1, 4>>}

\* keywords values as older versions of the program left them in the table
LegacyKeywords == {NoneText, <<"a", ",", " ", "a", ";", "b">>, <<" ", ";", ",">>}

LegacyMetrics == <<5, 0, 2, 1>>

FrameRow(k, m) ==
    [keywords |-> k, reach |-> m[1], likes |-> m[2], follows_gained |-> m[3],
     email_captures |-> m[4]]

ExplodeIdle ==
    /\ caption = <<>> /\ counts = <<>> /\ suggestions = <<>> /\ posts = <<>> /\ out = <<>>
    /\ session = <<>>

InitExplode ==
    /\ df = <<>>
    /\ exploded = <<>>
    /\ ExplodeIdle

\* insights, line 205, on a frame of one more row
FetchRow(k, m) ==
    /\ Len(df) < MaxRows
    /\ df' = Append(df, FrameRow(k, m))
    /\ exploded' = ExplodeKeywords(df')
    /\ UNCHANGED <<caption, counts, suggestions, posts, out, session>>

\* the first row's keywords are any short text, later rows hold legacy values
NextExplode ==
    \/ \E k \in Texts(KwChars, MaxKwLen), m \in MetricTuples : df = <<>> /\ FetchRow(k, m)
    \/ \E k \in LegacyKeywords : FetchRow(k, LegacyMetrics)

SpecExplode == InitExplode /\ [][NextExplode]_vars

(***************************************************************************)
(* The posts table and the queries of the pages.                           *)
(***************************************************************************)
\* SQL NULL / pandas NaN in a label column
None == "<None>"

EmptyTable == [r \in {} |-> 0]

\* INSERT INTO posts, lines 388-390
Insert(table, r) ==
    IF r \in DOMAIN table THEN [table EXCEPT ![r] = @ + 1] ELSE table @@ (r :> 1)

Size(table) ==
    LET RECURSIVE Count(_)
        Count(S) == IF S = {} THEN 0
                    ELSE LET r == CHOOSE x \in S : TRUE IN table[r] + Count(S \ {r})
    IN  Count(DOMAIN table)

\* the WHERE clause of lines 128-135, 189-196 and 274-278: an empty filter list
\* does not restrict, and a NULL never is IN a list
Matches(r, f) ==
    /\ f.start <= r.day /\ r.day <= f.end
    /\ f.platforms = {} \/ r.platform \in f.platforms
    /\ f.campaigns = {} \/ r.campaign \in f.campaigns
    /\ f.caption_styles = {} \/ r.caption_style \in f.caption_styles

\* pd.read_sql_query: the matching rows as a frame, a row as often as the table
\* holds it
ReadSqlQuery(table, f) ==
    LET RECURSIVE Rows(_)
        Rows(S) ==
            IF S = {} THEN <<>>
            ELSE LET r == CHOOSE x \in S : TRUE
                 IN  [i \in 1..table[r] |-> r] \o Rows(S \ {r})
    IN  Rows({r \in DOMAIN table : Matches(r, f)})

(***************************************************************************)
(* Rates: sdiv and exact fractions.                                        *)
(***************************************************************************)
Zero == [num |-> 0, den |-> 1]

RECURSIVE Gcd(_, _)
Gcd(a, b) == IF b = 0 THEN a ELSE Gcd(b, a % b)

\* the value num/den in lowest terms, so that equal values are equal fractions, as
\* equal quotients are equal floats
Frac(num, den) ==
    LET d == Gcd(num, den) IN [num |-> num \div d, den |-> den \div d]

\* sdiv dividing without looking at b
SdivUnguarded(a, b) == [num |-> a, den |-> b]

\* sdiv(a, b), lines 112-117, for numbers a, b >= 0
sdiv(a, b) == IF b # 0 THEN Frac(a, b) ELSE Zero

FracOfInt(n) == [num |-> n, den |-> 1]

FracGeq(x, y) == x.num * y.den >= y.num * x.den

FracEq(x, y) == x.num * y.den = y.num * x.den

FracAdd(x, y) == Frac(x.num * y.den + y.num * x.den, x.den * y.den)

\* (w / total) * x for weights in twentieths
FracScale(w, total, x) == Frac(w * x.num, total * x.den)

(***************************************************************************)
(* Aggregation: groupby(...).sum() and the rates.                          *)
(***************************************************************************)
\* Python's order of the labels and keywords of the model; a missing key comes
\* last in a groupby with dropna=False
LabelOrder == <<"", "BTS", "CTA", "Growth", "Unlabeled", "instagram", "tiktok", None>>
KeywordOrder == <<(<<"a">>), (<<"b">>), (<<"c">>), (<<"d">>)>>

\* fillna("Unlabeled").replace("", "Unlabeled"), line 211
Unlabel(v) == IF v = None \/ v = "" THEN "Unlabeled" ELSE v

SumWhere(rows, k, m) ==
    SumSeq([i \in DOMAIN rows |-> IF rows[i].key = k THEN rows[i][m] ELSE 0])

\* the sums of the rows of each of the given keys
SumsOf(rows, keys) ==
    [n \in DOMAIN keys |->
        [key |-> keys[n],
         reach |-> SumWhere(rows, keys[n], "reach"),
         likes |-> SumWhere(rows, keys[n], "likes"),
         follows_gained |-> SumWhere(rows, keys[n], "follows_gained"),
         email_captures |-> SumWhere(rows, keys[n], "email_captures")]]

\* groupby with the default dropna=True: rows with a missing key are left out
GroupBySumDropNa(rows, order) ==
    LET present(k) == k # None /\ \E i \in DOMAIN rows : rows[i].key = k
    IN  SumsOf(rows, SelectSeq(order, present))

\* groupby("key", dropna=False)[METRICS].sum().reset_index(): a row per key that
\* occurs, in ascending order of the key
GroupBySum(rows, order) ==
    LET present(k) == \E i \in DOMAIN rows : rows[i].key = k
        keys == SelectSeq(order, present)
    IN  [n \in DOMAIN keys |->
            [key |-> keys[n],
             reach |-> SumWhere(rows, keys[n], "reach"),
             likes |-> SumWhere(rows, keys[n], "likes"),
             follows_gained |-> SumWhere(rows, keys[n], "follows_gained"),
             email_captures |-> SumWhere(rows, keys[n], "email_captures")]]

\* lines 215-217 and 294-296: the three rates of row n of g
Rates(g, n) ==
    [like_rate |-> sdiv(g[n].likes, g[n].reach),
     follow_rate |-> sdiv(g[n].follows_gained, g[n].reach),
     capture_rate |-> sdiv(g[n].email_captures, g[n].reach)]

WithRates(g) ==
    [n \in DOMAIN g |->
        LET r == Rates(g, n)
        IN  [key |-> g[n].key, reach |-> g[n].reach, likes |-> g[n].likes,
             follows_gained |-> g[n].follows_gained,
             email_captures |-> g[n].email_captures,
             like_rate |-> r.like_rate, follow_rate |-> r.follow_rate,
             capture_rate |-> r.capture_rate]]

\* lines 232-233: the weights wf, wc, wl are sliders in steps of 0.05, here in
\* twentieths; total = max(wf+wc+wl, 1e-9), so all-zero weights give 0.0
SuccessScore(r, w) ==
    LET total == w.wf + w.wc + w.wl
    IN  IF total = 0 THEN Zero
        ELSE FracAdd(FracScale(w.wf, total, r.follow_rate),
                     FracAdd(FracScale(w.wc, total, r.capture_rate),
                             FracScale(w.wl, total, r.like_rate)))

COMPOSITE == "success_score (composite)"

\* line 233: the score column
WithScore(g, w) == [n \in DOMAIN g |-> g[n] @@ (COMPOSITE :> SuccessScore(g[n], w))]

\* the value of column col of a row with rates, as a fraction
SortValue(r, col) ==
    IF col \in {COMPOSITE, "like_rate", "follow_rate", "capture_rate"} THEN r[col]
    ELSE FracOfInt(r[col])

\* sort_values(col) with ascending left at its default: the smallest value first
SortedOrdersAscending(rows, col) ==
    LET n == Len(rows)
        v(i) == SortValue(rows[i], col)
    IN  {[i \in 1..n |-> rows[p[i]]] : p \in
            {q \in Perms(n) : \A i, j \in 1..n : i < j => FracGeq(v(q[j]), v(q[i]))}}

\* sort_values(col, ascending=False) with the default kind "quicksort", which is
\* not stable: every order that is descending in the values may come out
SortedOrders(rows, col) ==
    LET n == Len(rows)
        v(i) == SortValue(rows[i], col)
    IN  {[i \in 1..n |-> rows[p[i]]] : p \in
            {q \in Perms(n) : \A i, j \in 1..n : i < j => FracGeq(v(q[i]), v(q[j]))}}

(***************************************************************************)
(* The pages Insights and Weekly Review.                                   *)
(***************************************************************************)
DIMENSIONS ==
    [x \in {"Caption Style", "Platform", "Campaign/Theme", "Keyword"} |->
        CASE x = "Caption Style" -> "caption_style"
          [] x = "Platform" -> "platform"
          [] x = "Campaign/Theme" -> "campaign"
          [] x = "Keyword" -> "keyword"]

GROUPS ==
    [x \in {"Platform", "Campaign/Theme", "Caption Style"} |->
        CASE x = "Platform" -> "platform"
          [] x = "Campaign/Theme" -> "campaign"
          [] x = "Caption Style" -> "caption_style"]

options_rank ==
    {COMPOSITE, "follow_rate", "capture_rate", "like_rate", "follows_gained",
     "email_captures", "likes", "reach"}

wr_metrics ==
    {"reach", "likes", "follows_gained", "email_captures", "like_rate", "follow_rate",
     "capture_rate"}

Keyed(row, k) ==
    [key |-> k, reach |-> row.reach, likes |-> row.likes,
     follows_gained |-> row.follows_gained, email_captures |-> row.email_captures]

Blank == [page |-> "none"]

\* the threshold test with > for >=
AboveStrictly(r, min_reach) == r.reach > min_reach

\* line 235: g["reach"] >= min_reach
Above(r, min_reach) == r.reach >= min_reach

\* what insights(filters) shows for the table and the widgets' values
InsightsShown(table, f, dim, rank_by, min_reach, top_n, w) ==
    LET frame == ReadSqlQuery(table, f)
        col == DIMENSIONS[dim]
        base == IF col = "keyword"
                THEN LET e == ExplodeKeywords(frame)
                     IN  [i \in DOMAIN e |-> Keyed(e[i], e[i].keyword)]
                ELSE [i \in DOMAIN frame |-> Keyed(frame[i], Unlabel(frame[i][col]))]
        sums == GroupBySum(base, IF col = "keyword" THEN KeywordOrder ELSE LabelOrder)
        rated == WithRates(sums)
        g == IF rank_by = COMPOSITE THEN WithScore(rated, w) ELSE rated
        above(r) == Above(r, min_reach)
        g_f == SelectSeq(g, above)
        shown == [page |-> "Insights", dim |-> dim, rank_by |-> rank_by,
                  min_reach |-> min_reach, top_n |-> top_n, filters |-> f,
                  n_posts |-> Len(frame)]
    IN  IF frame = <<>>
        THEN {shown @@ [msg |-> "no posts", g |-> <<>>, g_f |-> <<>>, table |-> <<>>]}
        ELSE IF base = <<>>
        THEN {shown @@ [msg |-> "no keywords", g |-> <<>>, g_f |-> <<>>, table |-> <<>>]}
        ELSE IF g_f = <<>>
        THEN {shown @@ [msg |-> "all filtered", g |-> g, g_f |-> g_f, table |-> <<>>]}
        ELSE {shown @@ [msg |-> "table", g |-> g, g_f |-> g_f, table |-> HeadN(t, top_n)] :
                t \in SortedOrders(g_f, rank_by)}

\* what weekly_review() shows below the week selector
WeeklyReviewShown(table, f, group_by, metric) ==
    LET frame == ReadSqlQuery(table, f)
        gcol == GROUPS[group_by]
        base == [i \in DOMAIN frame |-> Keyed(frame[i], frame[i][gcol])]
        g == WithRates(GroupBySum(base, LabelOrder))
        shown == [page |-> "Weekly Review", group_by |-> group_by, metric |-> metric,
                  filters |-> f, n_posts |-> Len(frame)]
    IN  IF frame = <<>>
        THEN {shown @@ [msg |-> "no posts", g |-> <<>>]}
        ELSE {shown @@ [msg |-> "table", g |-> t] : t \in SortedOrders(g, metric)}

\* the labels and keywords of the rows the model draws; a row without campaign or
\* caption style, or with keywords in the older encoding, is one an older version
\* of the program left in the table
Profiles ==
    {[platform |-> "instagram", campaign |-> None, caption_style |-> "",
      keywords |-> NoneText],
     [platform |-> "tiktok", campaign |-> "", caption_style |-> None,
      keywords |-> <<"a">>],
     [platform |-> "instagram", campaign |-> "BTS", caption_style |-> "CTA",
      keywords |-> <<"a", ";", "B">>],
     [platform |-> "tiktok", campaign |-> "Growth", caption_style |-> "CTA",
      keywords |-> <<"c", ",", " ", "d">>]}

PostRow(p, day, m) ==
    [platform |-> p.platform, day |-> day, campaign |-> p.campaign,
     caption_style |-> p.caption_style, keywords |-> p.keywords,
     reach |-> m[1], likes |-> m[2], follows_gained |-> m[3], email_captures |-> m[4]]

\* the sidebar's filters, lines 435-436, and those of weekly_review, lines 266-271
Filters(start, end, campaigns) ==
    [start |-> start, end |-> end, platforms |-> {}, campaigns |-> campaigns,
     caption_styles |-> {}]

WeekLen == 7

MinReachChoices == {0, 2, 100}
TopNChoices == {3, 10}
\* the weights of the sliders at their defaults 0.6, 0.3, 0.1, in twentieths,
\* lines 229-231
DefaultWeights == [wf |-> 12, wc |-> 6, wl |-> 2]
WeightChoices == {DefaultWeights, [wf |-> 0, wc |-> 0, wl |-> 0]}
CampaignFilters == {{}, {"BTS"}}
PostMetrics == {<<0, 1, 0, 0>>, <<2, 0, 1, 0>>, <<2, 1, 0, 1>>}
RankChoices == options_rank \cap {COMPOSITE, "follow_rate", "reach"}
MetricChoices == wr_metrics \cap {"reach", "like_rate"}

PagesIdle ==
    /\ caption = <<>> /\ counts = <<>> /\ suggestions = <<>>
    /\ df = <<>> /\ exploded = <<>>

\* st.session_state of a new browser session: no key
NoSession == <<>>

Init ==
    /\ posts = EmptyTable
    /\ out = Blank
    /\ session = NoSession
    /\ PagesIdle

\* data_entry, lines 363-390: a post of profile p, dated day, with metrics m is
\* saved
SavePost(p, day, m) ==
    /\ out = Blank
    /\ Size(posts) < MaxPosts
    /\ posts' = Insert(posts, PostRow(p, day, m))
    /\ UNCHANGED <<out, session, caption, counts, suggestions, df, exploded>>

\* main, lines 443-444: the page Insights runs
RunInsights(start, end, campaigns, dim, rank_by, min_reach, top_n, w) ==
    /\ out = Blank
    /\ out' \in InsightsShown(posts, Filters(start, end, campaigns), dim, rank_by,
                              min_reach, top_n, w)
    /\ UNCHANGED <<posts, session, caption, counts, suggestions, df, exploded>>

\* main, lines 445-446: the page Weekly Review runs
RunWeeklyReview(start, end, campaigns, group_by, metric) ==
    /\ out = Blank
    /\ out' \in WeeklyReviewShown(posts, Filters(start, end, campaigns), group_by, metric)
    /\ UNCHANGED <<posts, session, caption, counts, suggestions, df, exploded>>

\* a new script run starts with an empty page
Rerun ==
    /\ out # Blank
    /\ out' = Blank
    /\ UNCHANGED <<posts, session, caption, counts, suggestions, df, exploded>>

Next ==
    \/ \E p \in Profiles, m \in PostMetrics : SavePost(p, 0, m)
    \/ \E c \in CampaignFilters, dim \in DOMAIN DIMENSIONS, rank_by \in RankChoices,
          min_reach \in MinReachChoices, top_n \in TopNChoices, w \in WeightChoices :
          /\ rank_by # COMPOSITE => w = DefaultWeights
          /\ RunInsights(0, WeekLen - 1, c, dim, rank_by, min_reach, top_n, w)
    \/ \E c \in CampaignFilters, group_by \in DOMAIN GROUPS, metric \in MetricChoices :
          RunWeeklyReview(0, WeekLen - 1, c, group_by, metric)
    \/ Rerun

Spec == Init /\ [][Next]_vars

(***************************************************************************)
(* The page Scorecard and its weekly chart.                                *)
(***************************************************************************)
\* date.weekday(): Monday is 0
Weekday(d) == d % WeekLen

\* monday_of(d), line 119
monday_of(d) == d - Weekday(d)

\* the label resample("W-MON") gives the bin of day d: weekly bins anchored on
\* Monday are closed and labelled on the right, so a bin runs from a Tuesday to
\* the Monday that names it
WeekBin(d) == IF Weekday(d) = 0 THEN d ELSE d + (WeekLen - Weekday(d))

SumDays(frame, label, m) ==
    SumSeq([i \in DOMAIN frame |-> IF WeekBin(frame[i].day) = label THEN frame[i][m] ELSE 0])

\* line 153, resample("W-MON").sum(numeric_only=True).reset_index(): a row for
\* every bin from the first post's to the last post's, the sum of no rows being 0
ResampleWeekly(frame) ==
    LET days == {frame[i].day : i \in DOMAIN frame}
        first == WeekBin(CHOOSE d \in days : \A e \in days : d <= e)
        last == WeekBin(CHOOSE d \in days : \A e \in days : d >= e)
    IN  [n \in 1..((last - first) \div WeekLen + 1) |->
            LET label == first + (n - 1) * WeekLen
            IN  [week |-> label,
                 reach |-> SumDays(frame, label, "reach"),
                 likes |-> SumDays(frame, label, "likes"),
                 follows_gained |-> SumDays(frame, label, "follows_gained"),
                 email_captures |-> SumDays(frame, label, "email_captures")]]

SumColumn(frame, m) == SumSeq([i \in DOMAIN frame |-> frame[i][m]])

\* what scorecard(filters) shows
ScorecardShown(table, f) ==
    LET frame == ReadSqlQuery(table, f)
        shown == [page |-> "Scorecard", filters |-> f, n_posts |-> Len(frame)]
        reach == SumColumn(frame, "reach")
    IN  IF frame = <<>>
        THEN shown @@ [msg |-> "no posts", week |-> <<>>]
        ELSE shown @@ [msg |-> "table",
                       reach |-> reach,
                       likes |-> SumColumn(frame, "likes"),
                       follows_gained |-> SumColumn(frame, "follows_gained"),
                       email_captures |-> SumColumn(frame, "email_captures"),
                       like_rate |-> sdiv(SumColumn(frame, "likes"), reach),
                       follow_rate |-> sdiv(SumColumn(frame, "follows_gained"), reach),
                       capture_rate |-> sdiv(SumColumn(frame, "email_captures"), reach),
                       week |-> ResampleWeekly(frame)]

\* main, lines 447-448: the page Scorecard runs
RunScorecard(start, end, campaigns) ==
    /\ out = Blank
    /\ out' = ScorecardShown(posts, Filters(start, end, campaigns))
    /\ UNCHANGED <<posts, session, caption, counts, suggestions, df, exploded>>

ChartMetrics == {<<0, 1, 0, 0>>, <<2, 1, 0, 1>>}

DateRanges == {<<0, MaxDay>>, <<0, WeekLen - 1>>, <<WeekLen, MaxDay>>}

NextScorecard ==
    \/ \E p \in {x \in Profiles : x.campaign = "BTS"}, d \in 0..MaxDay, m \in ChartMetrics :
          SavePost(p, d, m)
    \/ \E r \in DateRanges : RunScorecard(r[1], r[2], {})
    \/ Rerun

SpecScorecard == Init /\ [][NextScorecard]_vars

(***************************************************************************)
(* Script runs and st.session_state: the sidebar, the dispatch of main and *)
(* the button "Use this week in Scorecard" of Weekly Review.               *)
(*                                                                         *)
(* session holds the keys that lines 258-262 and 405-436 read or write.    *)
(* The keys of the other widgets (insights_rank_by, wf, wc, wl,            *)
(* wr_platforms, wr_caption_styles, wr_groupby, wr_metric and those of     *)
(* data_entry) are read and written by their own page only, and those      *)
(* widgets are shown at their default values.  A date range is a pair      *)
(* <<start, end>>.                                                         *)
(***************************************************************************)
\* the weeks of the selectbox "Week starting (Monday)" that the model offers
MaxWeeks == 3

\* range(12), line 252
WeeksListed == 12

\* datetime.now(), lines 250 and 407: a Wednesday
Today == 16

\* last_full_week(now), lines 120-122
last_full_week(now) == <<monday_of(now) - WeekLen, monday_of(now) - 1>>

\* mondays, line 252
mondays == {monday_of(Today - WeekLen * w) : w \in 0..(Min(WeeksListed, MaxWeeks) - 1)}

\* key in st.session_state
Has(s, k) == k \in DOMAIN s

\* st.session_state.get(k, default)
Get(s, k, default) == IF Has(s, k) THEN s[k] ELSE default

\* st.session_state[k] = v
Put(s, k, v) == [x \in DOMAIN s \cup {k} |-> IF x = k THEN v ELSE s[x]]

\* st.session_state.pop(k); of a widget that a run does not show, the key is
\* dropped at the end of the run
Pop(s, k) == [x \in DOMAIN s \ {k} |-> s[x]]

\* lines 409-410 and 422-423: a pending value moves to the key of its widget
Carry(s, pending, key) ==
    IF Has(s, pending) THEN Put(Pop(s, pending), key, s[pending]) ELSE s

\* sidebar(), lines 405-436: the session state it leaves and the dict it returns.
\* A widget with a key shows the value of its key, or its default when the key
\* is not set, and leaves its value under its key.
sidebar(s) ==
    LET s1 == Carry(s, "pending_filters_date_range", "filters_date_range")
        date_range == Get(s1, "filters_date_range", last_full_week(Today))
        s2 == Put(s1, "filters_date_range", date_range)
        s3 == Carry(s2, "pending_filter_campaigns", "filter_campaigns")
        campaigns == Get(s3, "filter_campaigns", {})
        s4 == Put(s3, "filter_campaigns", campaigns)
        page == Get(s4, "page_selector", "Insights")
        s5 == Put(s4, "page_selector", page)
    IN  [session |-> s5,
         filters |-> Filters(date_range[1], date_range[2], campaigns),
         page |-> page]

PAGES == {"Insights", "Weekly Review", "Scorecard", "Data Entry"}

\* the values of the widgets of insights at their defaults, lines 184-225
DefaultMinReach == 100
DefaultShowTopN == 10

\* weekly_review() up to line 262 with the button pressed: the three pending
\* keys are written and st.rerun() ends the run before line 269 shows the
\* widget "wr_campaigns", whose key the end of the run may keep or drop
UseThisWeek(s, start) ==
    LET wr == Get(s, "wr_campaigns", {})
        s1 == Put(s, "pending_filters_date_range", <<start, start + (WeekLen - 1)>>)
        s2 == Put(s1, "pending_filter_campaigns", wr)
        s3 == Put(s2, "pending_page_selector", "Scorecard")
        shown == [page |-> "Weekly Review", rerun |-> TRUE,
                  wr_start |-> start, wr_end |-> start + (WeekLen - 1), wr_campaigns |-> wr]
    IN  {[session |-> t, out |-> shown] : t \in {s3, Pop(s3, "wr_campaigns")}}

\* main(), lines 438-450, over session state s: the session state the run leaves
\* and what it shows.  start is the value of the selectbox of weekly_review and
\* pressed tells whether its button was pressed.
main(table, s, start, pressed) ==
    LET sb == sidebar(s)
        side == [sidebar |-> sb.filters, rerun |-> FALSE]
        left == Pop(sb.session, "wr_campaigns")
    IN  CASE sb.page = "Insights" ->
                {[session |-> left, out |-> b @@ side] :
                    b \in InsightsShown(table, sb.filters, "Caption Style", COMPOSITE,
                                        DefaultMinReach, DefaultShowTopN, DefaultWeights)}
          [] sb.page = "Weekly Review" ->
                IF pressed
                THEN {[session |-> r.session, out |-> r.out @@ [sidebar |-> sb.filters]] :
                        r \in UseThisWeek(sb.session, start)}
                ELSE LET wr == Get(sb.session, "wr_campaigns", {})
                         end == start + (WeekLen - 1)
                     IN  {[session |-> Put(sb.session, "wr_campaigns", wr),
                           out |-> b @@ side @@ [wr_start |-> start, wr_end |-> end,
                                                 wr_campaigns |-> wr]] :
                            b \in WeeklyReviewShown(table, Filters(start, end, wr),
                                                    "Platform", "reach")}
          [] sb.page = "Scorecard" ->
                {[session |-> left, out |-> ScorecardShown(table, sb.filters) @@ side]}
          [] OTHER ->
                {[session |-> left, out |-> [page |-> "Data Entry"] @@ side]}

\* one script run
Run(s, start, pressed) ==
    /\ \E r \in main(posts, s, start, pressed) :
          /\ session' = r.session
          /\ out' = r.out
    /\ UNCHANGED <<posts, caption, counts, suggestions, df, exploded>>

\* the week the selectbox of weekly_review shows when the user leaves it alone:
\* the one it showed in the run before, or its default, line 253
WeekShown ==
    IF out.page = "Weekly Review" THEN out.wr_start ELSE last_full_week(Today)[1]

\* a page is shown and no rerun is under way: the user may act
Interactive == out # Blank /\ ~out.rerun

\* the browser opens the app
Open ==
    /\ out = Blank
    /\ Run(session, WeekShown, FALSE)

\* the user picks a date range in the sidebar
PickDateRange(d) ==
    /\ Interactive
    /\ Run(Put(session, "filters_date_range", d), WeekShown, FALSE)

\* the user picks campaigns in the sidebar
PickCampaigns(c) ==
    /\ Interactive
    /\ Run(Put(session, "filter_campaigns", c), WeekShown, FALSE)

\* the user picks another page in the sidebar
GoTo(p) ==
    /\ Interactive
    /\ p # out.page
    /\ Run(Put(session, "page_selector", p), WeekShown, FALSE)

\* the user picks a week on Weekly Review
PickWeek(start) ==
    /\ Interactive
    /\ out.page = "Weekly Review"
    /\ Run(session, start, FALSE)

\* the user picks campaigns on Weekly Review
PickWrCampaigns(c) ==
    /\ Interactive
    /\ out.page = "Weekly Review"
    /\ Run(Put(session, "wr_campaigns", c), WeekShown, FALSE)

\* the user presses "Use this week in Scorecard"
PressUseThisWeek ==
    /\ Interactive
    /\ out.page = "Weekly Review"
    /\ Run(session, WeekShown, TRUE)

\* the run that st.rerun() of line 262 starts: no widget was touched; the
\* selectbox of weekly_review, not shown after line 253 of the run that was cut
\* short, shows its last value or its default again
RerunAfterPress ==
    /\ out # Blank
    /\ out.rerun
    /\ \E start \in {out.wr_start, last_full_week(Today)[1]} : Run(session, start, FALSE)

NextSession ==
    \/ Open
    \/ \E d \in DateRanges : PickDateRange(d)
    \/ \E c \in CampaignFilters : PickCampaigns(c)
    \/ \E p \in PAGES : GoTo(p)
    \/ \E start \in mondays : PickWeek(start)
    \/ \E c \in CampaignFilters : PickWrCampaigns(c)
    \/ PressUseThisWeek
    \/ RerunAfterPress

SpecSession == Init /\ [][NextSession]_vars

(***************************************************************************)
(* Claims about _explode_keywords.                                         *)
(***************************************************************************)
\* the positions that bound the pieces of t: its commas and semicolons, and the
\* positions before its first and after its last character
PieceBounds(t) == {i \in DOMAIN t : t[i] \in {",", ";"}} \cup {0, Len(t) + 1}

\* the positions of the characters of the piece that follows bound p that are not
\* white space
Inked(t, p) ==
    LET q == CHOOSE x \in PieceBounds(t) : x > p /\ \A y \in PieceBounds(t) : ~(p < y /\ y < x)
    IN  {i \in (p + 1)..(q - 1) : t[i] \notin Whitespace}

\* the bounds of t that a token follows, in ascending order
TokenStarts(t) ==
    LET P == {p \in PieceBounds(t) \ {Len(t) + 1} : Inked(t, p) # {}}
    IN  IF P = {} THEN <<>>
        ELSE CHOOSE s \in [1..Cardinality(P) -> P] : \A i, j \in DOMAIN s : i < j => s[i] < s[j]

\* the tokens of a keywords value: each piece with ink, from its first to its last
\* inked character, in lower case
ExpectedTokens(kw) ==
    IF kw = NoneText THEN <<>>
    ELSE LET st == TokenStarts(kw)
         IN  [n \in DOMAIN st |->
                LET ink == Inked(kw, st[n])
                    lo == CHOOSE i \in ink : \A j \in ink : i <= j
                    hi == CHOOSE i \in ink : \A j \in ink : i >= j
                IN  [i \in 1..(hi - lo + 1) |-> LowerChar(kw[lo + i - 1])]]

\* the number of tokens of the rows of frame before row i
TokensBefore(frame, i) ==
    SumSeq([j \in 1..(i - 1) |-> Len(ExpectedTokens(frame[j].keywords))])

\* C8: the exploded frame holds, post after post, exactly one row per token that
\* is non-empty after splitting on comma or semicolon and trimming; the row holds
\* the token in lower case and the post's four metrics; duplicates within a post
\* are kept, a post without keywords gives no row, and no row has an empty or
\* missing keyword.
C8_ExplodeOneRowPerToken ==
    /\ Len(exploded) = TokensBefore(df, Len(df) + 1)
    /\ \A i \in DOMAIN df : \A n \in DOMAIN ExpectedTokens(df[i].keywords) :
          LET r == exploded[TokensBefore(df, i) + n]
          IN  /\ r.keyword = ExpectedTokens(df[i].keywords)[n]
              /\ \A m \in Range(METRICS) : r[m] = df[i][m]
    /\ \A n \in DOMAIN exploded : exploded[n].keyword \notin {<<>>, NoneText}

\* a post with "a;A" gives two rows for "a", a post without keywords gives none
C8_Witness ==
    /\ Len(df) = 2
    /\ df[1].keywords = <<"a", ";", "A">>
    /\ df[2].keywords = NoneText
    /\ Len(exploded) = 2
    /\ exploded[1].keyword = <<"a">> /\ exploded[2].keyword = <<"a">>

\* the documented example: "a, a;b" gives two rows for "a" and one for "b"
C8_ExampleShown ==
    \A i \in DOMAIN df : df[i].keywords = <<"a", ",", " ", "a", ";", "b">> =>
        LET o == TokensBefore(df, i)
        IN  /\ exploded[o + 1].keyword = <<"a">>
            /\ exploded[o + 2].keyword = <<"a">>
            /\ exploded[o + 3].keyword = <<"b">>
            /\ Len(ExpectedTokens(df[i].keywords)) = 3

(***************************************************************************)
(* Claims about the weekly chart of the Scorecard.                         *)
(***************************************************************************)
\* the rows of table that filters f select
Selected(table, f) == {r \in DOMAIN table : Matches(r, f)}

\* the sum over the selected rows, each as often as the table holds it, of F
SumSelected(table, f, F(_)) ==
    LET RECURSIVE Sum(_)
        Sum(S) == IF S = {} THEN 0
                  ELSE LET r == CHOOSE x \in S : TRUE
                       IN  table[r] * F(r) + Sum(S \ {r})
    IN  Sum(Selected(table, f))

\* C2: every post is summed into the bucket that starts on the Monday on or
\* before its date: each bucket's label is a Monday, each post's Monday labels a
\* bucket, and a bucket's reach is the reach of the posts of its seven days.
C2_BucketStartsOnMondayBefore ==
    (out.page = "Scorecard" /\ out.msg = "table") =>
        /\ \A n \in DOMAIN out.week : Weekday(out.week[n].week) = 0
        /\ \A r \in Selected(posts, out.filters) :
              \E n \in DOMAIN out.week :
                  /\ out.week[n].week <= r.day
                  /\ r.day - out.week[n].week <= WeekLen - 1
        /\ \A n \in DOMAIN out.week :
              LET InBucket(r) ==
                      IF out.week[n].week <= r.day /\ r.day - out.week[n].week <= WeekLen - 1
                      THEN r.reach ELSE 0
              IN  out.week[n].reach = SumSelected(posts, out.filters, InBucket)

\* C3: the chart has a bucket only for a week that holds a post, so as many
\* buckets as the posts fall into and none whose sums are all zero, and the
\* buckets are in ascending order of their start.
C3_NoEmptyBuckets ==
    (out.page = "Scorecard" /\ out.msg = "table") =>
        /\ Len(out.week) = Cardinality({WeekBin(r.day) : r \in Selected(posts, out.filters)})
        /\ \A n \in DOMAIN out.week :
              out.week[n].reach + out.week[n].likes + out.week[n].follows_gained
                  + out.week[n].email_captures > 0
        /\ \A n \in DOMAIN out.week : n > 1 => out.week[n - 1].week < out.week[n].week

(***************************************************************************)
(* Claims about the reports of Insights and Weekly Review.                 *)
(***************************************************************************)
Reach(r) == r.reach

One(r) == 1

Categorical == DOMAIN DIMENSIONS \ {"Keyword"}

\* a run of Insights over a categorical dimension, or of Weekly Review, that got
\* as far as grouping
GroupedReport ==
    \/ out.page = "Insights" /\ out.dim \in Categorical /\ out.msg # "no posts"
    \/ out.page = "Weekly Review" /\ out.msg # "no posts"

\* the column the report groups by
GroupColumn == IF out.page = "Insights" THEN DIMENSIONS[out.dim] ELSE GROUPS[out.group_by]

\* C1: grouped by platform, campaign or caption style, the reach of the groups
\* adds up to the reach of the posts the report was made from, posts without a
\* value for the dimension included.
C1_GroupReachAddsUp ==
    GroupedReport =>
        SumSeq([n \in DOMAIN out.g |-> out.g[n].reach])
            = SumSelected(posts, out.filters, Reach)

\* both reports have grouped by campaign a table that holds a post with reach and
\* without campaign, beside a post with a campaign
C1_Witness ==
    /\ GroupedReport
    /\ GroupColumn = "campaign"
    /\ Len(out.g) = 2
    /\ \E r \in Selected(posts, out.filters) : r.campaign = None /\ r.reach > 0
    /\ \E r \in Selected(posts, out.filters) : r.campaign = "BTS" /\ r.reach > 0

\* C6: in every report grouped by platform, campaign or caption style no group
\* has a missing or empty label, and the posts without a value for the dimension
\* are in the group "Unlabeled".
C6_MissingIsUnlabeled ==
    GroupedReport =>
        /\ \A n \in DOMAIN out.g : out.g[n].key \notin {None, ""}
        /\ (\E r \in Selected(posts, out.filters) : r[GroupColumn] \in {None, ""})
              => \E n \in DOMAIN out.g : out.g[n].key = "Unlabeled"

\* the stable descending sort of rows by col: the one order in which rows of
\* equal value keep their places
StableSortedOrders(rows, col) ==
    LET n == Len(rows)
        v(i) == SortValue(rows[i], col)
    IN  {[i \in 1..n |-> rows[p[i]]] : p \in
            {q \in Perms(n) : \A i, j \in 1..n : i < j =>
                /\ FracGeq(v(q[i]), v(q[j]))
                /\ FracEq(v(q[i]), v(q[j])) => q[i] < q[j]}}

\* C7: the ranking is the stable sort of the groups that pass the threshold, cut
\* to top_n: groups of equal value keep the order of the aggregation.
C7_RankingIsStable ==
    (out.page = "Insights" /\ out.msg = "table") =>
        out.table \in {HeadN(t, out.top_n) : t \in StableSortedOrders(out.g_f, out.rank_by)}

\* the keys a post is grouped under along dim, with repetitions
KeysOf(r, dim) ==
    IF dim = "Keyword" THEN ExpectedTokens(r.keywords)
    ELSE <<Unlabel(r[DIMENSIONS[dim]])>>

\* the groups of the selected posts along dim
GroupKeys(table, f, dim) == UNION {Range(KeysOf(r, dim)) : r \in Selected(table, f)}

\* the summed reach of group k
GroupReach(table, f, dim, k) ==
    LET Share(r) == r.reach * Occurrences(KeysOf(r, dim), k)
    IN  SumSelected(table, f, Share)

\* C9 as claimed: no posts, or posts whose groups all are below min_reach, or a
\* table; nothing else.
C9_ThreeOutcomes ==
    out.page = "Insights" =>
        LET n == SumSelected(posts, out.filters, One)
            keys == GroupKeys(posts, out.filters, out.dim)
            allBelow == \A k \in keys :
                            GroupReach(posts, out.filters, out.dim, k) < out.min_reach
        IN  /\ n = 0 => out.msg = "no posts" /\ out.table = <<>>
            /\ (n > 0 /\ allBelow) => out.msg = "all filtered" /\ out.table = <<>>
            /\ (n > 0 /\ ~allBelow) => out.msg = "table" /\ out.table # <<>>
            /\ out.msg = "all filtered" => n > 0
            /\ out.msg = "no posts" => n = 0

\* C9, amended: Insights tells four outcomes apart.  Without posts it reports
\* "no posts"; with posts but no group at all (the dimension is Keyword and no
\* post has a keyword) it reports "no keywords"; with groups that all are below
\* min_reach it reports "all filtered"; in these three cases it shows no table.
\* Otherwise it shows a table that is not empty.
C9_FourOutcomes ==
    out.page = "Insights" =>
        LET n == SumSelected(posts, out.filters, One)
            keys == GroupKeys(posts, out.filters, out.dim)
            allBelow == \A k \in keys :
                            GroupReach(posts, out.filters, out.dim, k) < out.min_reach
        IN  /\ out.n_posts = n
            /\ out.msg = "no posts" <=> n = 0
            /\ out.msg = "no keywords" <=> (n > 0 /\ keys = {})
            /\ out.msg = "all filtered" <=> (n > 0 /\ keys # {} /\ allBelow)
            /\ out.msg = "table" <=> (n > 0 /\ ~allBelow)
            /\ out.msg = "table" <=> out.table # <<>>
            /\ out.msg = "no keywords" => out.dim = "Keyword"

\* posts with keywords, all of whose keyword groups are below the threshold
C9_Witness ==
    /\ out.page = "Insights"
    /\ out.dim = "Keyword"
    /\ out.msg = "all filtered"
    /\ out.min_reach = 2
    /\ Len(out.g) >= 2
    /\ out.n_posts = 2

\* C10: a group without reach has the three rates exactly 0 whatever its other
\* sums; no rate has a zero denominator; and a group with reach has each rate
\* equal to its own sum divided by its own reach.
C10_RatesSafe ==
    (out.page \in {"Insights", "Weekly Review"}) =>
        \A n \in DOMAIN out.g :
            LET r == out.g[n]
                Is(rate, sum) ==
                    /\ rate.den > 0
                    /\ r.reach = 0 => rate = Zero
                    /\ r.reach > 0 => rate.num * r.reach = sum * rate.den
            IN  /\ Is(r.like_rate, r.likes)
                /\ Is(r.follow_rate, r.follows_gained)
                /\ Is(r.capture_rate, r.email_captures)

\* a report with a group that has likes and no reach beside a group with reach
\* and a rate above 0
C10_Witness ==
    /\ out.page \in {"Insights", "Weekly Review"}
    /\ \E n \in DOMAIN out.g : out.g[n].reach = 0 /\ out.g[n].likes > 0
    /\ \E n \in DOMAIN out.g : out.g[n].reach > 0 /\ out.g[n].follow_rate.num > 0

\* the groups of the report that pass the threshold, as positions in out.g
Surviving == {n \in DOMAIN out.g : out.g[n].reach >= out.min_reach}

\* C11: the ranked table of Insights holds groups of the report only, each once
\* and each with reach >= min_reach; it is non-increasing in the sort key; no
\* group that passes the threshold is left out while a group with a strictly
\* smaller key is in the table; it has min(top_n, number of groups that pass)
\* rows; and top_n is between 3 and 20.
C11_TopNOfSurvivors ==
    out.page = "Insights" =>
        LET t == out.table
            v(r) == SortValue(r, out.rank_by)
            shown == {n \in Surviving : \E i \in DOMAIN t : t[i] = out.g[n]}
        IN  /\ out.top_n \in 3..20
            /\ \A i \in DOMAIN t :
                    /\ t[i].reach >= out.min_reach
                    /\ \E n \in Surviving : out.g[n] = t[i]
            /\ \A i, j \in DOMAIN t : i < j => t[i] # t[j] /\ FracGeq(v(t[i]), v(t[j]))
            /\ \A n \in Surviving \ shown :
                    \A i \in DOMAIN t : FracGeq(v(t[i]), v(out.g[n]))
            /\ Len(t) = Min(out.top_n, Cardinality(Surviving))

\* four keyword groups pass the threshold and top_n = 3 cuts the table to three
\* rows that are not all of the same value
C11_Witness ==
    /\ out.page = "Insights"
    /\ out.msg = "table"
    /\ out.top_n = 3
    /\ Cardinality(Surviving) = 4
    /\ Len(out.table) = 3
    /\ SortValue(out.table[1], out.rank_by) # SortValue(out.table[3], out.rank_by)

(***************************************************************************)
(* Claims about the carry-over from Weekly Review to Scorecard.            *)
(***************************************************************************)
PendingKeys ==
    {"pending_filters_date_range", "pending_filter_campaigns", "pending_page_selector"}

\* the run before was cut short by the button "Use this week in Scorecard"
Pressed == out.page = "Weekly Review" /\ out.rerun

\* C12: the run that follows a press of "Use this week in Scorecard" shows the
\* page Scorecard, with the sidebar's date range the week picked on Weekly
\* Review and the sidebar's campaigns those picked on Weekly Review, and leaves
\* none of the three pending keys in the session state.
C12_ButtonOpensScorecard ==
    [][Pressed =>
        /\ out'.page = "Scorecard"
        /\ out'.sidebar.start = out.wr_start
        /\ out'.sidebar.end = out.wr_end
        /\ out'.sidebar.campaigns = out.wr_campaigns
        /\ DOMAIN session' \cap PendingKeys = {}]_vars

\* what of C12 the code does: the run that follows a press has the week and the
\* campaigns of Weekly Review in the sidebar, it has consumed the two pending
\* keys of the filters, and it shows Weekly Review again with
\* "pending_page_selector" still set.
FiltersCarriedPageKept ==
    [][Pressed =>
        /\ out'.sidebar.start = out.wr_start
        /\ out'.sidebar.end = out.wr_end
        /\ out'.sidebar.campaigns = out.wr_campaigns
        /\ session'["filters_date_range"] = <<out.wr_start, out.wr_end>>
        /\ session'["filter_campaigns"] = out.wr_campaigns
        /\ DOMAIN session' \cap PendingKeys = {"pending_page_selector"}
        /\ session'["pending_page_selector"] = "Scorecard"
        /\ session'["page_selector"] = "Weekly Review"
        /\ out'.page = "Weekly Review"]_vars

====
